---- MODULE Spec2Model ----
(***************************************************************************)
(* Model of the a11y-pipeline orchestrator (run-task.ts): the persisted    *)
(* task statuses of task.ini, one orchestrator process at a time, the      *)
(* inline stages (crawl, snapshot) and the delegated scripts (axe_scan,    *)
(* filter, report) that runNodeScript starts by importing their module.    *)
(***************************************************************************)
EXTENDS Integers, Sequences, FiniteSets, TLC

\* ------------------------------------------------------------------ stages
TASK_ORDER == <<"crawl", "snapshot", "axe_scan", "filter", "report">>

Stages == {TASK_ORDER[i] : i \in 1..Len(TASK_ORDER)}

Inline == {"crawl", "snapshot"}

Delegated == Stages \ Inline

Index(t) == CHOOSE i \in 1..Len(TASK_ORDER) : TASK_ORDER[i] = t

\* What task.ini can hold for a stage: the section [task.<t>] is missing
\* ("nosection"), the section has no status key ("absent"), or a status.
Status == {"pending", "running", "done", "failed"}

IniValue == Status \cup {"absent", "nosection"}

Null == "null"

Throw == "throw"

NoStage == "none"

Off == <<NoStage>>

\* The orchestrator's memory when no process is alive.
NoCfg == [t \in Stages |-> "nosection"]

\* ---------------------------------------------------------- pure functions
\* String(section.status ?? "pending")
StatusOf(v) == IF v = "absent" THEN "pending" ELSE v

AllPending(c) == \A t \in Stages : StatusOf(c[t]) = "pending"

setStatus(c, t, s) == [c EXCEPT ![t] = s]

RECURSIVE resetFrom(_, _)
resetFrom(c, i) ==
  IF i > Len(TASK_ORDER) THEN c
  ELSE resetFrom(setStatus(c, TASK_ORDER[i], "pending"), i + 1)

\* Faulty variant: only the trailing stages (axe_scan, filter, report) are reset.
resetAllTasks_trailing(c) == resetFrom(c, Index("axe_scan"))

resetAllTasks(c) == resetFrom(c, 1)

\* The for loop of findNextPending from position i: getTaskSection throws on
\* a missing section, the first pending or running stage is returned.
RECURSIVE scanFrom(_, _)
scanFrom(c, i) ==
  IF i > Len(TASK_ORDER) THEN Null
  ELSE LET t == TASK_ORDER[i] IN
       IF c[t] = "nosection" THEN Throw
       ELSE IF StatusOf(c[t]) = "pending" THEN t
       ELSE IF StatusOf(c[t]) = "running" THEN t
       ELSE scanFrom(c, i + 1)

\* Faulty variant: a running stage is not resumed.
RECURSIVE scanNoResume(_, _)
scanNoResume(c, i) ==
  IF i > Len(TASK_ORDER) THEN Null
  ELSE LET t == TASK_ORDER[i] IN
       IF c[t] = "nosection" THEN Throw
       ELSE IF StatusOf(c[t]) = "pending" THEN t
       ELSE scanNoResume(c, i + 1)

findNextPending_noResume(c) == scanNoResume(c, 1)

\* Faulty variant: a failed stage is selected again.
RECURSIVE scanRetryFailed(_, _)
scanRetryFailed(c, i) ==
  IF i > Len(TASK_ORDER) THEN Null
  ELSE LET t == TASK_ORDER[i] IN
       IF c[t] = "nosection" THEN Throw
       ELSE IF StatusOf(c[t]) \in {"pending", "running", "failed"} THEN t
       ELSE scanRetryFailed(c, i + 1)

findNextPending_retryFailed(c) == scanRetryFailed(c, 1)

findNextPending(c) == scanFrom(c, 1)

\* The artifact a delegated script or the inline snapshot requires.
Upstream(t, a) ==
  CASE t = "snapshot" -> a.urls
    [] t = "axe_scan" -> a.urls
    [] t = "filter"   -> a.raw
    [] t = "report"   -> a.filtered
    [] OTHER          -> TRUE

\* fs.rmSync(outputDir): inputs/urls.json is outside the output directory.
cleanOutput(a) == [a EXCEPT !.raw = FALSE, !.filtered = FALSE]

\* -------------------------------------------------------------------- URLs
\* A URL as new URL() parses it; scheme "invalid" stands for an href that
\* new URL() rejects with a TypeError.
Url(s, h, p, f) == [scheme |-> s, host |-> h, path |-> p, frag |-> f]

UrlA == Url("https", "a", "/", "")

UrlAf == Url("https", "a", "/", "top")

UrlB == Url("https", "a", "/b", "")

UrlBf == Url("https", "a", "/b", "frag")

UrlC == Url("https", "a", "/c", "")

UrlD == Url("https", "d", "/", "")

UrlE == Url("https", "a", "/e", "")

UrlM == Url("mailto", "", "x@a", "")

UrlF == Url("file", "", "/index.html", "")

UrlBad == Url("invalid", "", "http://", "")

NoUrl == Url("none", "", "", "")

Root == Url("root", "", "", "")

\* The base_url values and the hrefs of the pages.
Seeds == {UrlA, UrlAf, UrlF}

Hrefs == {UrlA, UrlB, UrlBf, UrlC, UrlD, UrlE, UrlM, UrlBad}

\* Most links a page has, and the largest page budget tried besides 10, the
\* budget of the linear-chain scenario.
MaxLinks == 2

MaxBudget == 3

\* crawl.ts 31: max_pages as Number() reads it from the section.
Budgets == (0..MaxBudget) \cup {10}

IsValid(u) == u.scheme # "invalid"

\* url.hash = ""; url.toString()
normalizeUrl(u) == [u EXCEPT !.frag = ""]

\* URL.origin: scheme, host and port of an http(s) URL, "null" otherwise.
origin(u) ==
  IF u.scheme \in {"http", "https"}
  THEN [scheme |-> u.scheme, host |-> u.host]
  ELSE [scheme |-> "null", host |-> ""]

\* Faulty variant: only the scheme is compared.
isSameOrigin_schemeOnly(base, target) ==
  origin(base).scheme = origin(target).scheme

isSameOrigin(base, target) == origin(base) = origin(target)

\* Faulty variant: the scheme of a link is not looked at.
isHttp_any(u) == TRUE

\* proto === "http:" || proto === "https:"
isHttp(u) == u.scheme \in {"http", "https"}

\* Faulty variant: the URL read from the queue stays in it.
shift_keep(q) == q

\* queue.shift(): what is left of the queue.
shift(q) == Tail(q)

\* Faulty variant: a link is put at the front of the queue.
push_front(q, n) == <<n>> \o q

\* queue.push(n)
push(q, n) == Append(q, n)

\* The linear-chain scenario: A links to B, B to C, C to A and to D.
ChainLinks(u) ==
  CASE u = UrlA -> <<UrlB>>
    [] u = UrlB -> <<UrlC>>
    [] u = UrlC -> <<UrlA, UrlD>>
    [] OTHER    -> << >>

SeqSet(q) == {q[i] : i \in 1..Len(q)}

\* Faulty variant: an unreachable page is not recorded.
onCatch_drop(d, current) == d

\* crawl.ts 66-69: the catch block of the loop body.
onCatch(d, current) == Append(d, current)

\* ------------------------------------------------------------- URL strings
\* An absolute URL as written: the text of its scheme, host, port, path
\* segments, query and fragment; Absent is a part that is not written.
Absent == "absent"

Schemes == {"https", "HTTPS"}

Hosts == {"a", "A"}

Ports == {Absent, "443", "8080"}

Segs == {"b", ".", ".."}

Queries == {Absent, "", "q=1"}

Frags == {Absent, "", "frag", "top"}

\* Most path segments of a URL string.
MaxSegs == 2

RawUrls ==
  [scheme : Schemes, host : Hosts, port : Ports,
   path : UNION {[1..n -> Segs] : n \in 0..MaxSegs},
   query : Queries, frag : Frags]

\* ASCII lower case, on the names used here.
Lower(s) ==
  CASE s = "HTTPS" -> "https"
    [] s = "A"     -> "a"
    [] OTHER       -> s

\* The URL parser on path segments: "." and ".." are resolved, a path that
\* ends in one of them ends in an empty segment.
RECURSIVE resolve(_, _, _)
resolve(segs, i, acc) ==
  IF i > Len(segs) THEN acc
  ELSE LET isLast == i = Len(segs)
           up == IF acc = << >> THEN acc ELSE SubSeq(acc, 1, Len(acc) - 1)
       IN CASE segs[i] = ".." ->
                 resolve(segs, i + 1, IF isLast THEN Append(up, "") ELSE up)
            [] segs[i] = "." ->
                 resolve(segs, i + 1, IF isLast THEN Append(acc, "") ELSE acc)
            [] OTHER -> resolve(segs, i + 1, Append(acc, segs[i]))

\* new URL(u).toString(): scheme and host in lower case, the default port
\* left out, the path resolved and never empty.
href(u) ==
  LET sch == Lower(u.scheme)
      p == resolve(u.path, 1, << >>)
  IN [u EXCEPT !.scheme = sch,
               !.host = Lower(u.host),
               !.port = IF sch = "https" /\ u.port = "443" THEN Absent ELSE u.port,
               !.path = IF p = << >> THEN <<"">> ELSE p]

\* Faulty variant: the fragment is kept.
normalizeUrlString_keepHash(u) == href(u)

\* crawl.ts 16-21 on the string u: parse, url.hash = "", serialize.
normalizeUrlString(u) == [href(u) EXCEPT !.frag = Absent]

\* ------------------------------------------------------ the inline stages
\* An entry of A11Y_URLS: a path on the site (with or without fragment), an
\* absolute URL, or text that new URL() rejects.
Part(a, u) == [abs |-> a, url |-> u]

Parts == {Part(FALSE, UrlB), Part(FALSE, UrlBf), Part(FALSE, UrlC),
          Part(TRUE, UrlD), Part(TRUE, UrlBad)}

\* Most entries of A11Y_URLS, and most URLs of a urls.json given by hand.
MaxParts == 2

PartLists == UNION {[1..n -> Parts] : n \in 0..MaxParts}

GivenLists == UNION {[1..n -> {UrlA, UrlB, UrlD}] : n \in 0..MaxParts}

NoFile == <<NoUrl>>

\* new URL(p, baseUrl): a path is taken on the origin of the base.
resolveUrl(p, base) ==
  IF p.abs THEN p.url
  ELSE [p.url EXCEPT !.scheme = base.scheme, !.host = base.host]

\* run-task.ts 167-177: the entries that new URL() accepts, resolved.
RECURSIVE resolveAll(_, _, _)
resolveAll(ps, i, base) ==
  IF i > Len(ps) THEN << >>
  ELSE IF IsValid(ps[i].url)
       THEN <<resolveUrl(ps[i], base)>> \o resolveAll(ps, i + 1, base)
       ELSE resolveAll(ps, i + 1, base)

\* The name of the artifact of a URL.
sha1(u) == <<"sha1", u>>

Write(st, u, kind) == [stage |-> st, id |-> sha1(u), kind |-> kind]

\* Faulty variant: nothing is written for a URL that could not be loaded.
onSnapshotFail_skip(l, st, u) == l

\* run-task.ts 190-194 and 255-258: the placeholder of a URL that failed.
onSnapshotFail(l, st, u) == Append(l, Write(st, u, "failed"))

\* ------------------------------------------------------------------- state
VARIABLES
  disk,      \* task.ini: the persisted status of each stage
  baseUrl,   \* [global].base_url is set
  auto,      \* [global].auto_run_after_crawl
  arts,      \* which artifacts exist: inputs/urls.json, output/raw, output/filtered
  pc,        \* position of the orchestrator process
  cfg,       \* the cfg object of main()
  next,      \* the stage main() is executing
  runAll,    \* the runAll flag of main()
  bg,        \* axe-scan's main() is still running, un-awaited
  args,      \* flags of the current (or last) invocation
  pre,       \* task.ini when the current (or last) invocation started
  executed,  \* stages the current (or last) invocation has invoked, in order
  threw,     \* the stage whose execution failed in this invocation
  exitCode,  \* how the last invocation ended
  steps,     \* stages run by the successful single-step invocations made in
             \* a row since an invocation found every stage pending, or Off
  everDone   \* stages that have been persisted 'done' since the last reset

orchVars == <<disk, baseUrl, auto, arts, pc, cfg, next, runAll, bg, args, pre,
              executed, threw, exitCode, steps, everDone>>

\* The crawler of scripts/crawl.ts, a program of its own.
VARIABLES
  cpc,        \* position of crawl.ts: "off", "loop", "links" (the for loop), "done"
  seed,       \* baseUrl of crawl.ts
  maxPages,   \* the page budget
  queue,      \* the frontier
  visited,    \* the visited set
  discovered, \* the discovery list
  urlsJson,   \* the urls written to inputs/urls.json
  parent,     \* the page whose links first put a URL in the queue
  navFailed,  \* URLs whose navigation failed
  chain,      \* the run so far is the linear-chain scenario
  current,    \* the page whose links are being read
  k,          \* how many of its links have been read
  dropped     \* why links read so far were not queued: "origin", "scheme"

crawlVars == <<cpc, seed, maxPages, queue, visited, discovered, urlsJson,
               parent, navFailed, chain, current, k, dropped>>

\* normalizeUrl of crawl.ts applied to URL strings.
VARIABLES
  raw,        \* the string given to normalizeUrl
  out         \* what normalizeUrl returned, and what it returned for that

normVars == <<raw, out>>

\* runCrawlInline and runSnapshotInline of run-task.ts, URL by URL.
VARIABLES
  kpc,        \* "off", "login", "crawl", "idle", "snapshot", "end"
  parts,      \* the entries of A11Y_URLS
  budget,     \* max_pages of [task.crawl]
  ix,         \* URLs the running loop has dealt with
  urlsFile,   \* the urls of inputs/urls.json, NoFile before it is written
  log,        \* the writes to output/dom since the last clean
  navs,       \* whether each URL of the snapshot loop could be loaded
  result      \* how runSnapshotInline ended: "none", "done", "failed"

capVars == <<kpc, parts, budget, ix, urlsFile, log, navs, result>>

auxVars == <<normVars, capVars>>

vars == <<orchVars, crawlVars, auxVars>>

\* The orchestrator before its first invocation.
InitOrch ==
  /\ disk \in [Stages -> IniValue]
  /\ baseUrl \in BOOLEAN
  /\ auto \in BOOLEAN
  /\ arts = [urls |-> FALSE, raw |-> FALSE, filtered |-> FALSE]
  /\ pc = "idle"
  /\ cfg = NoCfg
  /\ next = NoStage
  /\ runAll = FALSE
  /\ bg = FALSE
  /\ args = [reset |-> FALSE, all |-> FALSE]
  /\ pre = disk
  /\ executed = << >>
  /\ threw = NoStage
  /\ exitCode = "none"
  /\ steps = Off
  /\ everDone = {t \in Stages : disk[t] = "done"}

\* crawl.ts is not running.
CrawlerOff ==
  /\ cpc = "off"
  /\ seed = UrlA
  /\ maxPages = 0
  /\ queue = << >>
  /\ visited = {}
  /\ discovered = << >>
  /\ urlsJson = << >>
  /\ parent = [u \in {} |-> NoUrl]
  /\ navFailed = {}
  /\ chain = FALSE
  /\ current = NoUrl
  /\ k = 0
  /\ dropped = {}

\* normalizeUrl is not being applied.
NormOff == raw = Absent /\ out = << >>

\* The inline stages are not followed URL by URL.
CaptureOff ==
  /\ kpc = "off"
  /\ parts = << >>
  /\ budget = 0
  /\ ix = 0
  /\ urlsFile = NoFile
  /\ log = << >>
  /\ navs = << >>
  /\ result = "none"

Init == InitOrch /\ CrawlerOff /\ NormOff /\ CaptureOff

\* The done stages are remembered until a reset.
Track == everDone' = everDone \cup {t \in Stages : disk'[t] = "done"}

\* ----------------------------------------------------------------- helpers
\* The process ends: its memory and its un-awaited work are gone.
ExitCore(code) ==
  /\ pc' = "idle"
  /\ exitCode' = code
  /\ bg' = FALSE
  /\ cfg' = NoCfg
  /\ next' = NoStage
  /\ runAll' = FALSE

\* ... and the run of single-step invocations goes on only when this one was
\* a single step that succeeded.
ExitWith(code) ==
  /\ ExitCore(code)
  /\ steps' = IF code = "ok" /\ steps # Off /\ ~args.all /\ ~auto /\ Len(executed) <= 1
              THEN steps \o executed
              ELSE Off

\* main() returns; node exits once the un-awaited work (b) has ended.
MainReturns(b) ==
  IF b
  THEN /\ pc' = "draining"
       /\ bg' = TRUE
       /\ cfg' = NoCfg
       /\ next' = NoStage
       /\ runAll' = FALSE
       /\ UNCHANGED <<exitCode, steps>>
  ELSE ExitWith("ok")

\* Faulty variant: the loop goes on whatever runAll is.
StageDone_noBreak(b) ==
  LET c2 == [cfg EXCEPT ![next] = "done"]
  IN /\ disk' = c2
     /\ pc' = "select"
     /\ cfg' = c2
     /\ runAll' = runAll
     /\ bg' = b
     /\ UNCHANGED <<next, exitCode, steps>>

\* Faulty variant: auto_run_after_crawl acts after any stage.
StageDone_autoAny(b) ==
  LET c2 == [cfg EXCEPT ![next] = "done"]
      ra == runAll \/ auto
  IN /\ disk' = c2
     /\ IF ra
        THEN /\ pc' = "select"
             /\ cfg' = c2
             /\ runAll' = TRUE
             /\ bg' = b
             /\ UNCHANGED <<next, exitCode, steps>>
        ELSE MainReturns(b)

\* run-task.ts 309-324: the stage returned; b is the un-awaited work then.
StageDone(b) ==
  LET c2 == [cfg EXCEPT ![next] = "done"]
      ra == runAll \/ (next = "crawl" /\ auto)
  IN /\ disk' = c2
     /\ IF ra
        THEN /\ pc' = "select"
             /\ cfg' = c2
             /\ runAll' = TRUE
             /\ bg' = b
             /\ UNCHANGED <<next, exitCode, steps>>
        ELSE MainReturns(b)

\* run-task.ts 316-321: the catch block of main().
StageFailed ==
  /\ disk' = [cfg EXCEPT ![next] = "failed"]
  /\ threw' = next
  /\ ExitWith("fail")

\* ----------------------------------------------------------------- actions
\* run-task.ts 264-288: a new orchestrator process.
Invoke(r, a, c) ==
  /\ pc = "idle"
  /\ args' = [reset |-> r, all |-> a]
  /\ pre' = disk
  /\ executed' = << >>
  /\ threw' = NoStage
  /\ everDone' = IF r /\ baseUrl THEN {} ELSE everDone
  /\ UNCHANGED <<baseUrl, auto>>
  /\ UNCHANGED <<crawlVars, auxVars>>
  /\ IF ~baseUrl
     THEN /\ ExitCore("fail")
          /\ steps' = Off
          /\ UNCHANGED <<disk, arts>>
     ELSE /\ arts' = IF c THEN cleanOutput(arts) ELSE arts
          /\ IF r
             THEN /\ disk' = resetAllTasks(disk)
                  /\ ExitCore("ok")
                  /\ steps' = Off
             ELSE /\ pc' = "select"
                  /\ cfg' = disk
                  /\ runAll' = a
                  /\ exitCode' = "none"
                  /\ steps' = IF AllPending(disk) THEN << >> ELSE steps
                  /\ UNCHANGED <<disk, next, bg>>

\* run-task.ts 290-299: top of the while loop.
Select ==
  /\ pc = "select"
  /\ LET r == findNextPending(cfg) IN
       CASE r = Throw ->
              /\ ExitWith("fail")
              /\ UNCHANGED <<disk, executed>>
         [] r = Null ->
              /\ MainReturns(bg)
              /\ UNCHANGED <<disk, executed>>
         [] OTHER ->
              /\ cfg' = setStatus(cfg, r, "running")
              /\ disk' = cfg'
              /\ next' = r
              /\ executed' = Append(executed, r)
              /\ pc' = "running"
              /\ UNCHANGED <<runAll, bg, exitCode, steps>>
  /\ UNCHANGED <<baseUrl, auto, arts, args, pre, threw>>
  /\ Track
  /\ UNCHANGED <<crawlVars, auxVars>>

\* run-task.ts 66-214: runCrawlInline ran to its end; its last step rewrites
\* task.ini from the file, with snapshot marked done.
CrawlWork ==
  /\ pc = "running" /\ next = "crawl"
  /\ arts' = [arts EXCEPT !.urls = TRUE]
  /\ disk' = [disk EXCEPT !["snapshot"] = "done"]
  /\ pc' = "crawl_marked"
  /\ UNCHANGED <<baseUrl, auto, cfg, next, runAll, bg, args, pre, executed,
                 threw, exitCode, steps>>
  /\ Track
  /\ UNCHANGED <<crawlVars, auxVars>>

CrawlDone ==
  /\ pc = "crawl_marked"
  /\ StageDone(bg)
  /\ UNCHANGED <<baseUrl, auto, arts, args, pre, executed, threw>>
  /\ Track
  /\ UNCHANGED <<crawlVars, auxVars>>

\* run-task.ts 217-262: runSnapshotInline ran to its end.
SnapshotOk ==
  /\ pc = "running" /\ next = "snapshot"
  /\ Upstream("snapshot", arts)
  /\ StageDone(bg)
  /\ UNCHANGED <<baseUrl, auto, arts, args, pre, executed, threw>>
  /\ Track
  /\ UNCHANGED <<crawlVars, auxVars>>

\* An inline stage throws: the browser cannot be launched, or
\* inputs/urls.json is missing (snapshot).
InlineThrow ==
  /\ pc = "running" /\ next \in Inline
  /\ StageFailed
  /\ UNCHANGED <<baseUrl, auto, arts, args, pre, executed>>
  /\ Track
  /\ UNCHANGED <<crawlVars, auxVars>>

\* run-task.ts 45-47: import() itself rejects (the module cannot be loaded).
ScriptLoadFail ==
  /\ pc = "running" /\ next \in Delegated
  /\ StageFailed
  /\ UNCHANGED <<baseUrl, auto, arts, args, pre, executed>>
  /\ Track
  /\ UNCHANGED <<crawlVars, auxVars>>

\* The script's main() throws before its first await: the module's own
\* main().catch handler runs before import() resolves and exits the process.
ScriptSyncThrow ==
  /\ pc = "running" /\ next \in Delegated
  /\ ~Upstream(next, arts)
  /\ threw' = next
  /\ ExitWith("fail")
  /\ UNCHANGED <<disk, baseUrl, auto, arts, args, pre, executed>>
  /\ Track
  /\ UNCHANGED <<crawlVars, auxVars>>

\* filter.ts / report.ts: main() has no await, it has ended when import()
\* resolves.
SyncScriptOk ==
  /\ pc = "running" /\ next \in {"filter", "report"}
  /\ Upstream(next, arts)
  /\ arts' = IF next = "filter" THEN [arts EXCEPT !.filtered = TRUE] ELSE arts
  /\ StageDone(bg)
  /\ UNCHANGED <<baseUrl, auto, args, pre, executed, threw>>
  /\ Track
  /\ UNCHANGED <<crawlVars, auxVars>>

\* axe-scan.ts: main() creates output/raw and suspends at chromium.launch;
\* import() resolves and main() of run-task.ts goes on.
AxeStart ==
  /\ pc = "running" /\ next = "axe_scan"
  /\ Upstream("axe_scan", arts)
  /\ arts' = [arts EXCEPT !.raw = TRUE]
  /\ StageDone(TRUE)
  /\ UNCHANGED <<baseUrl, auto, args, pre, executed, threw>>
  /\ Track
  /\ UNCHANGED <<crawlVars, auxVars>>

\* The un-awaited main() of axe-scan.ts ends; it runs only while the
\* orchestrator is suspended in an await or has returned.
BgOk ==
  /\ bg /\ pc \in {"running", "draining"}
  /\ IF pc = "draining"
     THEN ExitWith("ok")
     ELSE /\ bg' = FALSE
          /\ UNCHANGED <<pc, cfg, next, runAll, exitCode, steps>>
  /\ UNCHANGED <<disk, baseUrl, auto, arts, args, pre, executed, threw>>
  /\ Track
  /\ UNCHANGED <<crawlVars, auxVars>>

\* ... or throws (launch, newContext, close): its catch handler exits.
BgFail ==
  /\ bg /\ pc \in {"running", "draining"}
  /\ threw' = "axe_scan"
  /\ ExitWith("fail")
  /\ UNCHANGED <<disk, baseUrl, auto, arts, args, pre, executed>>
  /\ Track
  /\ UNCHANGED <<crawlVars, auxVars>>

\* The process is killed.
Crash ==
  /\ pc # "idle"
  /\ ExitWith("killed")
  /\ UNCHANGED <<disk, baseUrl, auto, arts, args, pre, executed, threw>>
  /\ Track
  /\ UNCHANGED <<crawlVars, auxVars>>

Next ==
  \/ \E r \in BOOLEAN, a \in BOOLEAN, c \in BOOLEAN : Invoke(r, a, c)
  \/ Select
  \/ CrawlWork
  \/ CrawlDone
  \/ SnapshotOk
  \/ InlineThrow
  \/ ScriptLoadFail
  \/ ScriptSyncThrow
  \/ SyncScriptOk
  \/ AxeStart
  \/ BgOk
  \/ BgFail
  \/ Crash

Spec == Init /\ [][Next]_vars

\* The steps of a started process that is not killed.
RunStep ==
  \/ Select
  \/ CrawlWork
  \/ CrawlDone
  \/ SnapshotOk
  \/ InlineThrow
  \/ ScriptLoadFail
  \/ ScriptSyncThrow
  \/ SyncScriptOk
  \/ AxeStart
  \/ BgOk
  \/ BgFail

\* Every stage that is started ends (it returns or throws), and node runs a
\* process that has something to do.
SpecFair == Spec /\ WF_vars(RunStep)

\* ------------------------------------------------------------ the crawler
\* crawl.ts 27-40: main() up to the while loop; the orchestrator is idle.
InitCrawl ==
  /\ disk = [t \in Stages |-> "pending"]
  /\ baseUrl = TRUE
  /\ auto = FALSE
  /\ arts = [urls |-> FALSE, raw |-> FALSE, filtered |-> FALSE]
  /\ pc = "idle"
  /\ cfg = NoCfg
  /\ next = NoStage
  /\ runAll = FALSE
  /\ bg = FALSE
  /\ args = [reset |-> FALSE, all |-> FALSE]
  /\ pre = disk
  /\ executed = << >>
  /\ threw = NoStage
  /\ exitCode = "none"
  /\ steps = Off
  /\ everDone = {}
  /\ cpc = "loop"
  /\ seed \in Seeds
  /\ maxPages \in Budgets
  /\ queue = <<seed>>
  /\ visited = {}
  /\ discovered = << >>
  /\ urlsJson = << >>
  /\ parent = [u \in {normalizeUrl(seed)} |-> Root]
  /\ navFailed = {}
  /\ chain = (seed = UrlA /\ maxPages = 10)
  /\ current = NoUrl
  /\ k = 0
  /\ dropped = {}
  /\ NormOff
  /\ CaptureOff

\* crawl.ts 42: the condition of the while loop.
LoopOn == Len(queue) > 0 /\ Len(discovered) < maxPages

\* crawl.ts 43-55: a URL not yet visited is taken from the queue and loaded;
\* the navigation and the link extraction succeed or throw.
CrawlerGoto(nav, eval) ==
  /\ cpc = "loop" /\ LoopOn
  /\ LET c == normalizeUrl(Head(queue)) IN
       /\ c \notin visited
       /\ visited' = visited \cup {c}
       /\ queue' = shift(queue)
       /\ discovered' = IF ~nav THEN onCatch(discovered, c)
                        ELSE IF ~eval THEN onCatch(Append(discovered, c), c)
                        ELSE Append(discovered, c)
       /\ navFailed' = IF nav THEN navFailed ELSE navFailed \cup {c}
       /\ cpc' = IF nav /\ eval THEN "links" ELSE "loop"
       /\ current' = IF nav /\ eval THEN c ELSE NoUrl
  /\ k' = 0
  /\ chain' = (chain /\ nav /\ eval)
  /\ UNCHANGED <<seed, maxPages, urlsJson, parent, dropped>>
  /\ UNCHANGED <<orchVars, auxVars>>

\* crawl.ts 57-69: the body of the for loop on the next link l of the page;
\* normalizeUrl throws on an href that is no URL, and the catch block ends
\* the iteration.
CrawlerLink(l) ==
  /\ cpc = "links" /\ k < MaxLinks
  /\ IF ~IsValid(l)
     THEN /\ discovered' = onCatch(discovered, current)
          /\ cpc' = "loop"
          /\ current' = NoUrl
          /\ k' = 0
          /\ chain' = FALSE
          /\ UNCHANGED <<queue, parent, dropped>>
     ELSE LET n == normalizeUrl(l)
              why == IF ~isSameOrigin(seed, n) THEN "origin"
                     ELSE IF n \in visited THEN "visited"
                     ELSE IF ~isHttp(n) THEN "scheme"
                     ELSE "none"
          IN /\ queue' = IF why = "none" THEN push(queue, n) ELSE queue
             /\ parent' = IF why = "none" /\ n \notin DOMAIN parent
                          THEN [u \in DOMAIN parent \cup {n} |->
                                  IF u = n THEN current ELSE parent[u]]
                          ELSE parent
             /\ dropped' = dropped \cup ({why} \cap {"origin", "scheme"})
             /\ k' = k + 1
             /\ chain' = (chain /\ k < Len(ChainLinks(current))
                                /\ l = ChainLinks(current)[k + 1])
             /\ UNCHANGED <<cpc, current, discovered>>
  /\ UNCHANGED <<seed, maxPages, visited, urlsJson, navFailed>>
  /\ UNCHANGED <<orchVars, auxVars>>

\* crawl.ts 57: the page has no more links.
CrawlerLinksEnd ==
  /\ cpc = "links"
  /\ cpc' = "loop"
  /\ current' = NoUrl
  /\ k' = 0
  /\ chain' = (chain /\ k = Len(ChainLinks(current)))
  /\ UNCHANGED <<seed, maxPages, queue, visited, discovered, urlsJson, parent,
                 navFailed, dropped>>
  /\ UNCHANGED <<orchVars, auxVars>>

\* crawl.ts 43-44: the URL at the front was visited before.
CrawlerSkip ==
  /\ cpc = "loop" /\ LoopOn
  /\ normalizeUrl(Head(queue)) \in visited
  /\ queue' = shift(queue)
  /\ UNCHANGED <<cpc, seed, maxPages, visited, discovered, urlsJson, parent,
                 navFailed, chain, current, k, dropped>>
  /\ UNCHANGED <<orchVars, auxVars>>

\* crawl.ts 72-77: the loop has ended, inputs/urls.json is written.
CrawlerWrite ==
  /\ cpc = "loop" /\ ~LoopOn
  /\ cpc' = "done"
  /\ urlsJson' = discovered
  /\ UNCHANGED <<seed, maxPages, queue, visited, discovered, parent,
                 navFailed, chain, current, k, dropped>>
  /\ UNCHANGED <<orchVars, auxVars>>

NextCrawl ==
  \/ \E nav, eval \in BOOLEAN : CrawlerGoto(nav, eval)
  \/ \E l \in Hrefs : CrawlerLink(l)
  \/ CrawlerLinksEnd
  \/ CrawlerSkip
  \/ CrawlerWrite

SpecCrawl == InitCrawl /\ [][NextCrawl]_vars

\* ------------------------------------------------------------ normalizeUrl
\* The orchestrator has not been started.
OrchOff ==
  /\ disk = [t \in Stages |-> "pending"]
  /\ baseUrl = TRUE
  /\ auto = FALSE
  /\ arts = [urls |-> FALSE, raw |-> FALSE, filtered |-> FALSE]
  /\ pc = "idle"
  /\ cfg = NoCfg
  /\ next = NoStage
  /\ runAll = FALSE
  /\ bg = FALSE
  /\ args = [reset |-> FALSE, all |-> FALSE]
  /\ pre = disk
  /\ executed = << >>
  /\ threw = NoStage
  /\ exitCode = "none"
  /\ steps = Off
  /\ everDone = {}

InitNorm ==
  /\ OrchOff
  /\ CrawlerOff
  /\ raw \in RawUrls
  /\ out = << >>
  /\ CaptureOff

\* normalizeUrl is applied to the string, then to its own result.
Normalize ==
  /\ Len(out) < 2
  /\ out' = Append(out, normalizeUrlString(IF out = << >> THEN raw ELSE out[1]))
  /\ UNCHANGED <<raw, orchVars, crawlVars, capVars>>

NextNorm == Normalize

SpecNorm == InitNorm /\ [][NextNorm]_vars

\* ------------------------------------------------------ the inline stages
\* Either the crawl stage starts (run-task.ts 66-89), on a site with base_url
\* A, or the snapshot stage starts on a urls.json that is there or not.
InitCapture ==
  /\ OrchOff
  /\ CrawlerOff
  /\ NormOff
  /\ ix = 0
  /\ log = << >>
  /\ navs = << >>
  /\ result = "none"
  /\ budget \in 0..MaxBudget
  /\ \/ /\ kpc = "login"
        /\ parts \in PartLists
        /\ urlsFile = NoFile
     \/ /\ kpc = "idle"
        /\ parts = << >>
        /\ urlsFile \in GivenLists \cup {NoFile}

urls == resolveAll(parts, 1, UrlA)

\* run-task.ts 91-103: the snapshot of the login page, base_url by default.
CapLogin(ok) ==
  /\ kpc = "login"
  /\ log' = IF ok THEN Append(log, Write("crawl", UrlA, "html")) ELSE log
  /\ kpc' = "crawl"
  /\ UNCHANGED <<parts, budget, ix, urlsFile, navs, result>>
  /\ UNCHANGED <<orchVars, crawlVars, normVars>>

\* run-task.ts 180-196: one URL of the list.
CapCrawlUrl(ok) ==
  /\ kpc = "crawl" /\ ix < Len(urls)
  /\ log' = IF ok THEN Append(log, Write("crawl", urls[ix + 1], "html"))
            ELSE onSnapshotFail(log, "crawl", urls[ix + 1])
  /\ ix' = ix + 1
  /\ UNCHANGED <<kpc, parts, budget, urlsFile, navs, result>>
  /\ UNCHANGED <<orchVars, crawlVars, normVars>>

\* run-task.ts 198-205: urls.json is written with the list; the stage ends.
CapCrawlEnd ==
  /\ kpc = "crawl" /\ ix = Len(urls)
  /\ urlsFile' = urls
  /\ kpc' = "idle"
  /\ ix' = 0
  /\ UNCHANGED <<parts, budget, log, navs, result>>
  /\ UNCHANGED <<orchVars, crawlVars, normVars>>

\* run-task.ts 216-245: the snapshot stage starts; it throws when urls.json
\* is missing or the browser cannot be launched.
CapSnapshotStart(launch) ==
  /\ kpc = "idle" /\ result = "none"
  /\ IF urlsFile = NoFile \/ ~launch
     THEN kpc' = "end" /\ result' = "failed"
     ELSE kpc' = "snapshot" /\ result' = result
  /\ ix' = 0
  /\ navs' = << >>
  /\ UNCHANGED <<parts, budget, urlsFile, log>>
  /\ UNCHANGED <<orchVars, crawlVars, normVars>>

\* run-task.ts 247-259: one URL of urls.json.
CapSnapshotUrl(ok) ==
  /\ kpc = "snapshot" /\ ix < Len(urlsFile)
  /\ log' = IF ok THEN Append(log, Write("snapshot", urlsFile[ix + 1], "html"))
            ELSE onSnapshotFail(log, "snapshot", urlsFile[ix + 1])
  /\ navs' = Append(navs, ok)
  /\ ix' = ix + 1
  /\ UNCHANGED <<kpc, parts, budget, urlsFile, result>>
  /\ UNCHANGED <<orchVars, crawlVars, normVars>>

\* run-task.ts 261 and 309: the loop has ended, the stage is done.
CapSnapshotEnd ==
  /\ kpc = "snapshot" /\ ix = Len(urlsFile)
  /\ kpc' = "end"
  /\ result' = "done"
  /\ UNCHANGED <<parts, budget, ix, urlsFile, log, navs>>
  /\ UNCHANGED <<orchVars, crawlVars, normVars>>

NextCapture ==
  \/ \E ok \in BOOLEAN : CapLogin(ok)
  \/ \E ok \in BOOLEAN : CapCrawlUrl(ok)
  \/ CapCrawlEnd
  \/ \E launch \in BOOLEAN : CapSnapshotStart(launch)
  \/ \E ok \in BOOLEAN : CapSnapshotUrl(ok)
  \/ CapSnapshotEnd

SpecCapture == InitCapture /\ [][NextCapture]_vars

\* The loop of crawl.ts is the only thing its process does: while a step of
\* it is possible, one is taken (every await of the body is taken to return
\* or throw).
SpecCrawlFair == SpecCrawl /\ WF_vars(NextCrawl)

\* ================================================================== claims
Actionable(c, t) == StatusOf(c[t]) \in {"pending", "running"}

Before(u, t) == Index(u) < Index(t)

\* The first stage of the order that is pending or running, if any.
FirstActionable(c) ==
  IF \E t \in Stages : Actionable(c, t)
  THEN CHOOSE t \in Stages :
         Actionable(c, t) /\ \A u \in Stages : Before(u, t) => ~Actionable(c, u)
  ELSE Null

SectionsPresent(c) == \A t \in Stages : c[t] # "nosection"

Last(s) == s[Len(s)]

Ran(s) == {s[i] : i \in 1..Len(s)}

\* Stages whose work is in progress.
Working ==
  (IF pc \in {"running", "crawl_marked"} THEN {next} ELSE {})
    \cup (IF bg THEN {"axe_scan"} ELSE {})

AtMostOneRunning(d) == Cardinality({t \in Stages : d[t] = "running"}) <= 1

\* Every running stage is the first pending-or-running stage of the order.
RunningIsFirst(d) ==
  \A t \in Stages : d[t] = "running" =>
    \A u \in Stages : Before(u, t) => ~Actionable(d, u)

\* C1: when a stage was 'failed' at the start of an invocation that is not a
\* reset, the invocation executes no stage and the stage stays 'failed'.
C1_FailedBlocksProgress ==
  (~args.reset /\ \E t \in Stages : pre[t] = "failed") =>
    /\ executed = << >>
    /\ \A t \in Stages : pre[t] = "failed" => disk[t] = "failed"

\* C2: when the execution of a stage failed, at the end of the invocation the
\* stage is persisted 'failed', the exit is a failure, and the other stages
\* are as they were (done if they ran before it in this invocation).
C2_FailureIsPersisted ==
  (pc = "idle" /\ threw # NoStage) =>
    /\ disk[threw] = "failed"
    /\ exitCode = "fail"
    /\ \A t \in Stages \ {threw} :
         disk[t] = IF t \in Ran(executed) THEN "done" ELSE pre[t]

\* C3: at most one stage has work in progress, and a stage whose work is in
\* progress is not persisted 'done'.
C3_NoConcurrentStages ==
  /\ Cardinality(Working) <= 1
  /\ \A t \in Working : disk[t] # "done"

\* C4: findNextPending returns the first stage of the fixed order whose status
\* is pending or running (absent counts as pending), and null exactly when no
\* stage has such a status; it is the stage main() then executes.
C4_FindNextPending ==
  pc \in {"select", "running", "crawl_marked"} =>
    LET r == findNextPending(cfg) IN
      /\ r \in Stages =>
           /\ Actionable(cfg, r)
           /\ \A u \in Stages : Before(u, r) => ~Actionable(cfg, u)
      /\ SectionsPresent(cfg) =>
           /\ r # Throw
           /\ r = FirstActionable(cfg)
           /\ (r = Null <=> \A t \in Stages : ~Actionable(cfg, t))
      /\ pc \in {"running", "crawl_marked"} => next = r

C4_Witness ==
  /\ pc = "select"
  /\ SectionsPresent(cfg)
  /\ cfg["crawl"] = "done" /\ cfg["snapshot"] = "failed"
  /\ cfg["axe_scan"] = "absent" /\ cfg["report"] = "running"
  /\ findNextPending(cfg) = "axe_scan"

C6_AllHaltsAtFailure ==
  args.all =>
    /\ \A i, j \in 1..Len(executed) : i < j => Before(executed[i], executed[j])
    /\ threw # NoStage =>
         /\ executed # << >>
         /\ Last(executed) = threw
         /\ exitCode = "fail"

\* C7: after a run-all from all-pending in which every stage succeeded,
\* crawl and snapshot are 'done' and axe_scan, filter, report are 'pending'.
C7_PostRunReset ==
  (pc = "idle" /\ exitCode = "ok" /\ args.all /\ ~args.reset
     /\ AllPending(pre) /\ Len(executed) = Len(TASK_ORDER)) =>
    disk = [t \in Stages |-> IF t \in Inline THEN "done" ELSE "pending"]

\* C8: an invocation with --reset (in a configuration that has base_url)
\* leaves every stage 'pending' whatever it was, and executes no stage, with
\* or without --all.
C8_ResetAll ==
  args.reset =>
    /\ pc = "idle"
    /\ executed = << >>
    /\ baseUrl => /\ exitCode = "ok"
                  /\ \A t \in Stages : disk[t] = "pending"

C8_Witness ==
  /\ pc = "idle" /\ args.reset /\ args.all /\ exitCode = "ok"
  /\ pre = [crawl |-> "done", snapshot |-> "failed", axe_scan |-> "running",
            filter |-> "absent", report |-> "nosection"]
  /\ \A t \in Stages : disk[t] = "pending"

\* C9 as stated: from a state with at most one stage 'running', every step
\* leads to a state with at most one stage 'running'.
C9_AtMostOneRunning ==
  [][AtMostOneRunning(disk) => AtMostOneRunning(disk')]_vars

\* C9 amended: from a state in which every 'running' stage is the first
\* pending-or-running stage of the order, every step leads to such a state,
\* and so to a state with at most one stage 'running'.
C9_RunningIsFirstActionable ==
  [][RunningIsFirst(disk) =>
       RunningIsFirst(disk') /\ AtMostOneRunning(disk')]_vars

C9_Witness ==
  /\ pc = "running" /\ args.all
  /\ RunningIsFirst(pre) /\ pre["crawl"] = "running"
  /\ executed = <<"crawl", "snapshot", "axe_scan">>
  /\ disk["axe_scan"] = "running"
  /\ AtMostOneRunning(disk)

\* C10: outside a reset, the only status a step changes is that of the stage
\* being executed, from pending or running to 'running' when it is selected
\* and from 'running' to 'done' or 'failed' when it ends.
C10_StatusMonotonic ==
  [][\A t \in Stages : disk'[t] # disk[t] =>
       \/ pc = "idle" /\ args'.reset
       \/ /\ pc = "select" /\ pc' = "running" /\ next' = t
          /\ Actionable(disk, t) /\ disk'[t] = "running"
       \/ /\ pc \in {"running", "crawl_marked"} /\ next = t
          /\ disk[t] = "running" /\ disk'[t] \in {"done", "failed"}]_vars

\* C11: a stage whose status has been 'done' since the last reset is not
\* selected for execution again.
C11_ExactlyOnce == pc = "running" => next \notin everDone

\* C12: an invocation (other than a reset) whose configuration lacks base_url
\* or the section of a stage executes no stage and changes no status.
C12_ConfigErrorAborts ==
  (~args.reset /\ (~baseUrl \/ \E t \in Stages : pre[t] = "nosection"))
    => executed = << >> /\ disk = pre

\* The stages of the order that are pending or running in c, in order.
ActionableSeq(c) ==
  LET Test(t) == Actionable(c, t) IN SelectSeq(TASK_ORDER, Test)

\* C13: with auto_run_after_crawl set, a single-step invocation that executes
\* a stage other than crawl executes no second stage; one whose crawl throws
\* executes nothing after it; and one whose crawl succeeds and that ends well
\* has executed every stage that was pending or running, in order.
C13_AutoContinue ==
  (auto /\ ~args.all /\ ~args.reset /\ executed # << >>) =>
    /\ executed[1] # "crawl" => Len(executed) = 1
    /\ threw = "crawl" => executed = <<"crawl">>
    /\ (executed[1] = "crawl" /\ pc = "idle" /\ exitCode = "ok")
         => executed = ActionableSeq(pre)

C13_Witness ==
  /\ auto /\ ~args.all /\ ~args.reset
  /\ pc = "idle" /\ exitCode = "ok"
  /\ AllPending(pre)
  /\ executed = TASK_ORDER

\* C14: when the process is killed, every stage whose work was under way is
\* left 'running' in task.ini and is the stage the next invocation selects.
C14_CrashResume ==
  [][(pc # "idle" /\ exitCode' = "killed") =>
       \A t \in Working : disk'[t] = "running" /\ FirstActionable(disk') = t]_vars

\* ----------------------------------------------------- claims on the crawler
Count(s, x) == Cardinality({i \in 1..Len(s) : s[i] = x})

NoDup(s) == \A i, j \in 1..Len(s) : s[i] = s[j] => i = j

\* Links from the seed to u along the pages that first queued each page.
RECURSIVE Depth(_)
Depth(u) == IF parent[u] = Root THEN 0 ELSE 1 + Depth(parent[u])

\* A link the filter must keep out: another origin than the seed's, or a
\* scheme that is not http or https.
Foreign(u) == origin(u) # origin(seed) \/ u.scheme \notin {"http", "https"}

\* C15: the discovery list never has more than maxPages entries, neither in
\* memory nor as written; with maxPages = 0 no page is visited.
C15_BudgetBound ==
  /\ Len(discovered) <= maxPages
  /\ Len(urlsJson) <= maxPages
  /\ maxPages = 0 => visited = {} /\ discovered = << >>

\* C16: no URL is twice in the discovery list.
C16_VisitedOnce == NoDup(discovered) /\ NoDup(urlsJson)

\* C17: apart from the seed itself, the queue and the discovery list never
\* hold a URL of another origin than the seed's or of a scheme other than
\* http and https.
C17_SameOriginFilter ==
  /\ \A i \in 1..Len(queue) : queue[i] = seed \/ ~Foreign(queue[i])
  /\ \A i \in 1..Len(discovered) :
       discovered[i] = normalizeUrl(seed) \/ ~Foreign(discovered[i])
  /\ \A i \in 1..Len(urlsJson) :
       urlsJson[i] = normalizeUrl(seed) \/ ~Foreign(urlsJson[i])

C17_Witness ==
  /\ cpc = "done"
  /\ dropped = {"origin", "scheme"}
  /\ urlsJson = <<seed>>

\* C18: the step in which a navigation fails appends the URL to the discovery
\* list, takes only that URL from the queue and stays in the loop; a URL
\* whose navigation failed is once in the list and no URL was queued from it.
C18_FailedPageProgress ==
  [][/\ \A x \in navFailed' :
          /\ Count(discovered', x) = 1
          /\ \A u \in DOMAIN parent' : parent'[u] # x
     /\ navFailed' # navFailed =>
          /\ discovered' = Append(discovered, normalizeUrl(Head(queue)))
          /\ queue' = Tail(queue)
          /\ cpc' = "loop"]_vars

C18_Witness ==
  /\ cpc = "done"
  /\ \E i, j \in 1..Len(urlsJson) :
       i < j /\ urlsJson[i] \in navFailed /\ urlsJson[j] \notin navFailed

\* C19: seed A, budget 10, A links to B, B to C, C to A and to the external
\* D, every navigation succeeds: the list written is A, B, C.
C19_LinearChain ==
  (cpc = "done" /\ chain) => urlsJson = <<UrlA, UrlB, UrlC>>

C19_Witness ==
  /\ cpc = "done" /\ chain
  /\ seed = UrlA /\ maxPages = 10
  /\ "origin" \in dropped
  /\ visited = {UrlA, UrlB, UrlC}

\* C20: the discovery list is in non-decreasing distance from the seed, and
\* a page first queued from P comes before every page first queued from a
\* page that P's links queued.
C20_BreadthFirst ==
  \A i, j \in 1..Len(discovered) :
    LET u == discovered[i]
        v == discovered[j]
    IN /\ i < j => Depth(u) <= Depth(v)
       /\ (parent[v] # Root /\ parent[parent[v]] = parent[u]) => i < j

C20_Witness ==
  /\ cpc = "done"
  /\ urlsJson = <<UrlA, UrlB, UrlC, UrlE>>
  /\ parent[UrlC] = UrlA /\ parent[UrlE] = UrlB

\* C21 as stated: the crawl ends, at every head of the loop the queue holds
\* only same-origin URLs not yet visited, and every dequeue makes the visited
\* set strictly larger.
C21_QueueUnvisited ==
  /\ <>(cpc = "done")
  /\ [](cpc = "loop" =>
          \A i \in 1..Len(queue) :
            /\ origin(queue[i]) = origin(seed)
            /\ normalizeUrl(queue[i]) \notin visited)
  /\ [][(cpc = "loop" /\ queue # << >> /\ queue' = Tail(queue)) =>
          visited' # visited /\ visited \subseteq visited']_vars

\* C21 amended: the crawl ends; a URL is put in the queue only when it is of
\* the seed's origin and not visited at that moment; the visited set never
\* shrinks, and a dequeue either adds the dequeued URL to it or finds it
\* there already and queues nothing.
C21_Terminates ==
  /\ <>(cpc = "done")
  /\ [][/\ visited \subseteq visited'
        /\ Len(queue') > Len(queue) =>
             /\ queue' = Append(queue, Last(queue'))
             /\ origin(Last(queue')) = origin(seed)
             /\ Last(queue') \notin visited
        /\ (cpc = "loop" /\ cpc' # "done") =>
             /\ queue' = Tail(queue)
             /\ visited' = visited \cup {normalizeUrl(Head(queue))}]_vars

C21_Witness ==
  /\ cpc = "done"
  /\ queue = << >>
  /\ navFailed # {}
  /\ visited = {UrlA, UrlB, UrlC, UrlE}

WritesOf(st) ==
  LET Test(e) == e.stage = st IN SelectSeq(log, Test)

\* The stages that wrote the artifact id.
Writers(id) == {log[i].stage : i \in {j \in 1..Len(log) : log[j].id = id}}

\* C23: the snapshot stage writes one artifact for each URL of urls.json it
\* has dealt with, the markup when the URL could be loaded and the
\* placeholder when not; once in its loop it deals with every URL and ends
\* as done.
C23_SnapshotPerUrl ==
  LET w == WritesOf("snapshot") IN
    /\ Len(w) = Len(navs)
    /\ \A i \in 1..Len(navs) :
         w[i] = Write("snapshot", urlsFile[i], IF navs[i] THEN "html" ELSE "failed")
    /\ kpc = "snapshot" => ix = Len(navs) /\ result = "none"
    /\ (kpc = "end" /\ urlsFile # NoFile /\ (navs # << >> \/ result = "done")) =>
         result = "done" /\ Len(navs) = Len(urlsFile)

C23_Witness ==
  /\ kpc = "end" /\ result = "done"
  /\ navs = <<FALSE, TRUE>>

\* C24: no artifact of output/dom is written by two stages.
C24_OneWriter ==
  \A i \in 1..Len(log) : Cardinality(Writers(log[i].id)) <= 1

\* C25: the urls.json the crawl stage writes holds only URLs without
\* fragment, of the origin of base_url and of scheme http or https, none
\* twice, and no more of them than max_pages.
C25_DiscoveryArtifact ==
  (urlsFile # NoFile /\ parts # << >>) =>
    /\ \A i \in 1..Len(urlsFile) :
         /\ normalizeUrl(urlsFile[i]) = urlsFile[i]
         /\ origin(urlsFile[i]) = origin(UrlA)
         /\ urlsFile[i].scheme \in {"http", "https"}
    /\ NoDup(urlsFile)
    /\ Len(urlsFile) <= budget

\* ------------------------------------------- more claims on the orchestrator
\* C26: the step that persists crawl as done leaves snapshot persisted as
\* done, and the stage executed after crawl is never snapshot.
C26_SnapshotSkipped ==
  [][/\ (disk["crawl"] # "done" /\ disk'["crawl"] = "done") =>
          disk'["snapshot"] = "done"
     /\ \A i \in 1..(Len(executed') - 1) :
          executed'[i] = "crawl" => executed'[i + 1] # "snapshot"]_vars

C29_IdempotentResumption ==
  (~args.reset /\ \A t \in Stages : ~Actionable(pre, t)) =>
    /\ executed = << >>
    /\ disk = pre
    /\ pc \in {"idle", "select"}

C29_Witness ==
  /\ ~args.reset
  /\ pc = "idle" /\ exitCode = "ok"
  /\ pre["axe_scan"] = "failed"
  /\ \A t \in Stages : pre[t] \in {"done", "failed"}
  /\ steps = Off


\* ------------------------------------------------ more claims on the crawler
\* C27: after every step the URLs of the discovery list are those of the
\* visited set; a URL enters the visited set only when it is dequeued and not
\* in the set, and is appended to the list in that step; the other steps add
\* no new URL to the list.
C27_DiscoveredIsVisited ==
  [][/\ SeqSet(discovered') = visited'
     /\ SubSeq(discovered', 1, Len(discovered)) = discovered
     /\ visited' # visited =>
          /\ cpc = "loop" /\ queue # << >>
          /\ normalizeUrl(Head(queue)) \notin visited
          /\ visited' = visited \cup {normalizeUrl(Head(queue))}
          /\ discovered'[Len(discovered) + 1] = normalizeUrl(Head(queue))
     /\ visited' = visited => SeqSet(discovered') = SeqSet(discovered)]_vars

C27_Witness ==
  /\ cpc = "loop"
  /\ queue # << >>
  /\ navFailed # {}
  /\ Cardinality(visited) = 3
  /\ Len(discovered) = 3

====
